---- MODULE Spec2Model ----
(***************************************************************************)
(* Model of the vibecafe backend recommendation subsystem:                 *)
(*   src/recommendations.ts  the two engine variants, the fallback scorer  *)
(*                           and ranking, the engine selector              *)
(*   src/unnamed/part_001    the routes and the startup backfill           *)
(*   src/storage.ts          the storage operations the routes call        *)
(*                                                                         *)
(* Three specifications share the module:                                  *)
(*   SpecScore  calculateFallbackScore applied to one (quiz, cafe) pair    *)
(*   SpecRank   getFallbackRecommendations of both variants on one input   *)
(*   Spec       the process: module load, startup backfill, the routes     *)
(***************************************************************************)
EXTENDS Integers, Sequences, FiniteSets, TLC

VARIABLES
  \* ---- SpecScore ----
  quizResponse,          \* the quiz response handed to the scorer
  cafe,                  \* the cafe handed to the scorer
  scores,                \* the results of the calls made so far
  \* ---- SpecRank ----
  rankQuiz,              \* the quiz response handed to getFallbackRecommendations
  rankCafes,             \* the cafe list handed to getFallbackRecommendations
  recombeeIds,           \* result of RecombeeRecommendationEngine's method
  algoliaIds,            \* result of AlgoliaRecommendationEngine's method
  \* ---- Spec ----
  env,                   \* process.env: the two credential values
  recommendationEngine,  \* part_001:7, the module-level const
  isInitialized,         \* RecombeeRecommendationEngine.isInitialized
  startupPc,             \* position of the startup IIFE (part_001:196-210)
  allCafesLocal,         \* the IIFE's local allCafes
  backfilled,            \* ids the IIFE has passed to addCafe, in order
  logged,                \* what the IIFE has written to the console
  users,                 \* table users: users[id] is the row's quizResponses
  cafes,                 \* table cafes, in the order a select returns its rows
  response               \* the response of the last request handled

scoreVars == <<quizResponse, cafe, scores>>
rankVars  == <<rankQuiz, rankCafes, recombeeIds, algoliaIds>>
sysVars   == <<env, recommendationEngine, isInitialized, startupPc, allCafesLocal,
               backfilled, logged, users, cafes, response>>
vars      == <<scoreVars, rankVars, sysVars>>

(***************************************************************************)
(* Bounds                                                                  *)
(***************************************************************************)
MaxCalls == 2          \* calls of the scorer on one pair (SpecScore)
MaxLen == 3            \* length of the short cafe lists (SpecRank)
MaxCafes == 2          \* rows of table cafes (Spec)
MaxUsers == 1          \* rows of table users (Spec)

(***************************************************************************)
(* Values                                                                  *)
(***************************************************************************)
Undefined == "undefined"

Min(a, b) == IF a < b THEN a ELSE b

\* Array.prototype.slice(0, n) for n >= 0
Slice(s, n) == SubSeq(s, 1, Min(n, Len(s)))

Range(s) == {s[i] : i \in 1..Len(s)}

\* a cafe row without id and position
CafeAttrs ==
  [budgetRange : {"low", "mid"},
   ambience : {"Cozy", "Aesthetic", "Minimal"},
   noiseLevel : {"Quiet", "Social", "Loud"},
   lighting : {"Moody", "Bright"},
   seatingStyle : {"Booths", "Tables"},
   workFriendly : BOOLEAN,
   wifiQuality : {"Excellent", "Poor"},
   petFriendly : BOOLEAN,
   instaWorthiness : {"High", "Low"},
   plugPoints : BOOLEAN]

\* quizResponses is untyped JSON: a field may be missing (Undefined), and the
\* mood may be any string.  ambience is an array, modelled as the set of its
\* elements; hasAmbience = FALSE is a missing ambience field.
Moods == {"study", "work", "date", "hangout", "party", Undefined}

QuizResponses ==
  {q \in [budget : {"low", "mid", Undefined},
          hasAmbience : BOOLEAN,
          ambience : {{}, {"Cozy"}, {"Aesthetic", "Minimal"}},
          mood : Moods,
          petFriendly : BOOLEAN] :
     ~q.hasAmbience => q.ambience = {}}

(***************************************************************************)
(* RecombeeRecommendationEngine.calculateFallbackScore                     *)
(***************************************************************************)
MoodScore(mood, c) ==
  CASE mood = "study" ->
         (IF c.noiseLevel = "Quiet" THEN 3 ELSE 0)
         + (IF c.workFriendly THEN 2 ELSE 0)
         + (IF c.plugPoints THEN 1 ELSE 0)
    [] mood = "work" ->
         (IF c.workFriendly THEN 4 ELSE 0)
         + (IF c.wifiQuality = "Excellent" THEN 2 ELSE 0)
         + (IF c.plugPoints THEN 2 ELSE 0)
    [] mood = "date" ->
         (IF c.ambience = "Aesthetic" THEN 3 ELSE 0)
         + (IF c.lighting = "Moody" THEN 2 ELSE 0)
         + (IF c.seatingStyle = "Booths" THEN 1 ELSE 0)
    [] mood = "hangout" ->
         (IF c.noiseLevel = "Social" THEN 2 ELSE 0)
         + (IF c.ambience = "Cozy" THEN 2 ELSE 0)
    [] OTHER -> 0

\* quizResponse.ambience?.includes(cafe.ambience)
AmbienceIncludes(q, c) == q.hasAmbience /\ c.ambience \in q.ambience

\* calculateFallbackScore with the break of case 'date' missing
MutCalculateFallbackScore(q, c) ==
  (IF q.budget = c.budgetRange THEN 3 ELSE 0)
  + (IF AmbienceIncludes(q, c) THEN 4 ELSE 0)
  + MoodScore(q.mood, c)
  + (IF q.mood = "date" THEN MoodScore("hangout", c) ELSE 0)
  + (IF c.instaWorthiness = "High" THEN 2 ELSE 0)
  + (IF c.petFriendly /\ q.petFriendly THEN 1 ELSE 0)

calculateFallbackScore(q, c) ==
  (IF q.budget = c.budgetRange THEN 3 ELSE 0)
  + (IF AmbienceIncludes(q, c) THEN 4 ELSE 0)
  + MoodScore(q.mood, c)
  + (IF c.instaWorthiness = "High" THEN 2 ELSE 0)
  + (IF c.petFriendly /\ q.petFriendly THEN 1 ELSE 0)

(***************************************************************************)
(* getFallbackRecommendations of the two variants                          *)
(***************************************************************************)
FallbackSliceEnd == 10
AlgoliaSliceEnd == 5

\* cafes.map(cafe => ({id, score}))
ScoredCafes(q, cs) ==
  [i \in 1..Len(cs) |-> [id |-> cs[i].id, score |-> calculateFallbackScore(q, cs[i])]]

\* InsertByScore of a sort that is not stable
MutInsertByScore(sorted, x) ==
  LET k == Cardinality({i \in 1..Len(sorted) : sorted[i].score > x.score})
  IN SubSeq(sorted, 1, k) \o <<x>> \o SubSeq(sorted, k + 1, Len(sorted))

\* One step of a stable sort under the comparator (a, b) => b.score - a.score:
\* x goes behind every element that does not compare after it.
InsertByScore(sorted, x) ==
  LET k == Cardinality({i \in 1..Len(sorted) : sorted[i].score >= x.score})
  IN SubSeq(sorted, 1, k) \o <<x>> \o SubSeq(sorted, k + 1, Len(sorted))

RECURSIVE SortFrom(_, _, _)
SortFrom(s, i, acc) ==
  IF i > Len(s) THEN acc ELSE SortFrom(s, i + 1, InsertByScore(acc, s[i]))

\* Array.prototype.sort((a, b) => b.score - a.score): stable since ES2019
SortByScoreDesc(s) == SortFrom(s, 1, <<>>)

RecombeeGetFallbackRecommendations(q, cs) ==
  LET top == Slice(SortByScoreDesc(ScoredCafes(q, cs)), FallbackSliceEnd)
  IN [i \in 1..Len(top) |-> top[i].id]

AlgoliaGetFallbackRecommendations(q, cs) ==
  LET top == Slice(cs, AlgoliaSliceEnd)
  IN [i \in 1..Len(top) |-> top[i].id]

(***************************************************************************)
(* Idle values: each specification leaves the other two parts untouched    *)
(***************************************************************************)
NoQuiz == [isNull |-> TRUE]
NoCafe == [isNull |-> TRUE]
NoResult == [called |-> FALSE, ids |-> <<>>]
NoResponse ==
  [route |-> "none", req |-> <<>>, status |-> 0, body |-> <<>>, error |-> "",
   storage |-> "none", engine |-> "none", engineOp |-> "none", engineResult |-> "none",
   engineReady |-> FALSE]

IdleScore == quizResponse = NoQuiz /\ cafe = NoCafe /\ scores = <<>>
IdleRank ==
  rankQuiz = NoQuiz /\ rankCafes = <<>> /\ recombeeIds = NoResult /\ algoliaIds = NoResult
IdleSys ==
  /\ env = [RECOMBEE_DATABASE_ID |-> Undefined, RECOMBEE_PRIVATE_TOKEN |-> Undefined]
  /\ recommendationEngine = "none"
  /\ isInitialized = FALSE
  /\ startupPc = "load"
  /\ allCafesLocal = <<>>
  /\ backfilled = <<>>
  /\ logged = {}
  /\ users = <<>>
  /\ cafes = <<>>
  /\ response = NoResponse

(***************************************************************************)
(* SpecScore: the scorer on every (quiz response, cafe) pair               *)
(***************************************************************************)
InitScore ==
  /\ quizResponse \in QuizResponses
  /\ cafe \in CafeAttrs
  /\ scores = <<>>
  /\ IdleRank /\ IdleSys

CallScore ==
  /\ Len(scores) < MaxCalls
  /\ scores' = Append(scores, calculateFallbackScore(quizResponse, cafe))
  /\ UNCHANGED <<quizResponse, cafe, rankVars, sysVars>>

NextScore == CallScore

SpecScore == InitScore /\ [][NextScore]_vars

(***************************************************************************)
(* SpecRank: getFallbackRecommendations of both variants on one input      *)
(***************************************************************************)
\* a row of table cafes; latitude is 0 for every row of the model
Row(a, id, lng) ==
  [id |-> id, longitude |-> lng,
   budgetRange |-> a.budgetRange, ambience |-> a.ambience,
   noiseLevel |-> a.noiseLevel, lighting |-> a.lighting,
   seatingStyle |-> a.seatingStyle, workFriendly |-> a.workFriendly,
   wifiQuality |-> a.wifiQuality, petFriendly |-> a.petFriendly,
   instaWorthiness |-> a.instaWorthiness, plugPoints |-> a.plugPoints]

Catalogue ==
  << [budgetRange |-> "low", ambience |-> "Cozy", noiseLevel |-> "Quiet",
      lighting |-> "Bright", seatingStyle |-> "Tables", workFriendly |-> TRUE,
      wifiQuality |-> "Excellent", petFriendly |-> FALSE,
      instaWorthiness |-> "Low", plugPoints |-> TRUE],
     [budgetRange |-> "mid", ambience |-> "Aesthetic", noiseLevel |-> "Social",
      lighting |-> "Moody", seatingStyle |-> "Booths", workFriendly |-> FALSE,
      wifiQuality |-> "Poor", petFriendly |-> TRUE,
      instaWorthiness |-> "High", plugPoints |-> FALSE],
     [budgetRange |-> "mid", ambience |-> "Minimal", noiseLevel |-> "Loud",
      lighting |-> "Bright", seatingStyle |-> "Tables", workFriendly |-> FALSE,
      wifiQuality |-> "Poor", petFriendly |-> FALSE,
      instaWorthiness |-> "Low", plugPoints |-> FALSE],
     [budgetRange |-> "low", ambience |-> "Cozy", noiseLevel |-> "Social",
      lighting |-> "Moody", seatingStyle |-> "Tables", workFriendly |-> TRUE,
      wifiQuality |-> "Poor", petFriendly |-> TRUE,
      instaWorthiness |-> "Low", plugPoints |-> FALSE] >>

RankQuizzes ==
  { [budget |-> "low", hasAmbience |-> TRUE, ambience |-> {"Cozy"},
     mood |-> "study", petFriendly |-> FALSE],
    [budget |-> "mid", hasAmbience |-> TRUE, ambience |-> {"Aesthetic", "Minimal"},
     mood |-> "date", petFriendly |-> TRUE],
    [budget |-> "low", hasAmbience |-> FALSE, ambience |-> {},
     mood |-> "hangout", petFriendly |-> TRUE],
    [budget |-> Undefined, hasAmbience |-> FALSE, ambience |-> {},
     mood |-> Undefined, petFriendly |-> FALSE] }

DistinctIds(cs) == \A i, j \in 1..Len(cs) : cs[i].id = cs[j].id => i = j

\* every list of at most MaxLen rows with distinct ids (ids are the serial
\* primary key; a select without ORDER BY returns the rows in any order)
ShortLists ==
  {cs \in UNION {[1..n -> {Row(Catalogue[k], id, 0) : k \in 1..Len(Catalogue), id \in 1..MaxLen}]
                 : n \in 0..MaxLen} : DistinctIds(cs)}

\* lists one longer than the slice of the ranking, so that it truncates
LongLen == FallbackSliceEnd + 1
LongLists ==
  {[i \in 1..LongLen |-> Row(Catalogue[((i * k + d) % Len(Catalogue)) + 1],
                             ((i + d) % LongLen) + 1, 0)]
     : k \in 1..3, d \in 0..3}

InitRank ==
  /\ rankQuiz \in RankQuizzes
  /\ rankCafes \in ShortLists \cup LongLists
  /\ recombeeIds = NoResult
  /\ algoliaIds = NoResult
  /\ IdleScore /\ IdleSys

CallRecombeeFallback ==
  /\ ~recombeeIds.called
  /\ recombeeIds' = [called |-> TRUE,
                     ids |-> RecombeeGetFallbackRecommendations(rankQuiz, rankCafes)]
  /\ UNCHANGED <<rankQuiz, rankCafes, algoliaIds, scoreVars, sysVars>>

CallAlgoliaFallback ==
  /\ ~algoliaIds.called
  /\ algoliaIds' = [called |-> TRUE,
                    ids |-> AlgoliaGetFallbackRecommendations(rankQuiz, rankCafes)]
  /\ UNCHANGED <<rankQuiz, rankCafes, recombeeIds, scoreVars, sysVars>>

NextRank == CallRecombeeFallback \/ CallAlgoliaFallback

SpecRank == InitRank /\ [][NextRank]_vars

(***************************************************************************)
(* Spec: the process.  Engine selector and engine operations               *)
(***************************************************************************)
\* a credential is missing, the empty string, or a non-empty string
CredentialValues == {Undefined, "", "secret"}

\* JavaScript truthiness of a string-or-undefined value
Truthy(v) == v # Undefined /\ v # ""

\* createRecommendationEngine with || in place of &&
MutCreateRecommendationEngine(e) ==
  IF Truthy(e.RECOMBEE_DATABASE_ID) \/ Truthy(e.RECOMBEE_PRIVATE_TOKEN)
  THEN "Recombee" ELSE "Algolia"

createRecommendationEngine(e) ==
  IF Truthy(e.RECOMBEE_DATABASE_ID) /\ Truthy(e.RECOMBEE_PRIVATE_TOKEN)
  THEN "Recombee" ELSE "Algolia"

\* addUser, addCafe, addInteraction.  The argument is <<x>>, or <<>> for
\* undefined.  The personalized variant reads a property of its argument
\* (user.id, cafe.name, interaction.interactionType) for its log line, which
\* raises a TypeError on undefined; the rule-based variant reads nothing.
RecombeeIngest(arg) == IF arg = <<>> THEN "TypeError" ELSE "ok"
AlgoliaIngest(arg) == "ok"
EngineIngest(engine, arg) ==
  IF engine = "Recombee" THEN RecombeeIngest(arg) ELSE AlgoliaIngest(arg)

\* getRecommendations of both variants: return []
EngineGetRecommendations(engine, userId, count) == <<>>

EngineGetFallbackRecommendations(engine, q, cs) ==
  IF engine = "Recombee"
  THEN RecombeeGetFallbackRecommendations(q, cs)
  ELSE AlgoliaGetFallbackRecommendations(q, cs)

(***************************************************************************)
(* Storage                                                                 *)
(***************************************************************************)
\* db.select().from(cafes): every row.  cafes holds the rows in the order the
\* select returns them; an insert appends.
getAllCafes == cafes

Abs(x) == IF x < 0 THEN -x ELSE x

\* Great-circle distance in metres between (lat, lng) and a row, for points
\* on the equator at whole degrees: 6371 km * acos(cos(dlng)) is 6371 km
\* times dlng in radians, 111195 m for each degree.
MetresPerDegree == 111195
DistanceMetres(lat, lng, c) == MetresPerDegree * Abs(c.longitude - lng)

\* the rows whose distance is <= radiusKm, in the order of the select
getCafesNearLocation(lat, lng, radiusKm, cs) ==
  SelectSeq(cs, LAMBDA c : DistanceMetres(lat, lng, c) <= radiusKm * 1000)

Ids(cs) == [i \in 1..Len(cs) |-> cs[i].id]

(***************************************************************************)
(* Startup (part_001:196-210) and module load                              *)
(***************************************************************************)
\* what the startup has advertised so far
EngineReady == "ready" \in logged

InitSys ==
  /\ env \in [RECOMBEE_DATABASE_ID : CredentialValues,
              RECOMBEE_PRIVATE_TOKEN : CredentialValues]
  /\ recommendationEngine = "none"
  /\ isInitialized = FALSE
  /\ startupPc = "load"
  /\ allCafesLocal = <<>>
  /\ backfilled = <<>>
  /\ logged = {}
  /\ users = <<>>
  /\ cafes = <<>>
  /\ response = NoResponse
  /\ IdleScore /\ IdleRank

\* Evaluation of the routes module: the engine is created, the startup
\* function is called and runs to its first suspension.  initialize() has no
\* await, so its body has run when the call returns; the continuation that
\* issues getAllCafes is a microtask and runs before any request is handled.
LoadModule ==
  /\ startupPc = "load"
  /\ recommendationEngine' = createRecommendationEngine(env)
  /\ isInitialized' = (recommendationEngine' = "Recombee")
  /\ logged' = {"initialized"}
  /\ startupPc' = "getAllCafes"
  /\ UNCHANGED <<env, allCafesLocal, backfilled, users, cafes, response,
                 scoreVars, rankVars>>

\* for (const cafe of allCafes): the loop is over when every cafe was passed
MutBackfillDone(done, all) == Len(done) + 1 >= Len(all)

BackfillDone(done, all) == Len(done) >= Len(all)

\* the loop from its head: the next addCafe call, or the ready line
BackfillContinue(all, done) ==
  IF BackfillDone(done, all)
  THEN /\ logged' = logged \cup {"ready"}
       /\ startupPc' = "done"
       /\ backfilled' = done
  ELSE LET next == all[Len(done) + 1]
       IN IF EngineIngest(recommendationEngine, <<next>>) = "ok"
          THEN /\ backfilled' = Append(done, next.id)
               /\ startupPc' = "addCafe"
               /\ UNCHANGED logged
          ELSE /\ logged' = logged \cup {"failed"}
               /\ startupPc' = "done"
               /\ backfilled' = done

\* storage.getAllCafes() settles: rejected (catch, console.error) or resolved
StartupGetAllCafes ==
  /\ startupPc = "getAllCafes"
  /\ \/ /\ logged' = logged \cup {"failed"}
        /\ startupPc' = "done"
        /\ UNCHANGED <<allCafesLocal, backfilled>>
     \/ /\ allCafesLocal' = getAllCafes
        /\ BackfillContinue(getAllCafes, <<>>)
  /\ UNCHANGED <<env, recommendationEngine, isInitialized, users, cafes, response,
                 scoreVars, rankVars>>

\* await recommendationEngine.addCafe(cafe) resumes
StartupAddCafe ==
  /\ startupPc = "addCafe"
  /\ BackfillContinue(allCafesLocal, backfilled)
  /\ UNCHANGED <<env, recommendationEngine, isInitialized, allCafesLocal, users, cafes,
                 response, scoreVars, rankVars>>

(***************************************************************************)
(* Routes (part_001).  A handler is one action.  response records the      *)
(* reply of the last request together with what the handler did:           *)
(*   storage      "ok" | "error"   whether the handler's validation and    *)
(*                storage call returned or threw                           *)
(*   engineOp     the engine operation the handler called, or "none"       *)
(*   engineResult "ok" | "TypeError" | "none"                              *)
(*   engineReady  whether the startup had advertised the engine as ready   *)
(*                when the handler ran                                     *)
(* Table user_interactions is written by POST /api/interactions and read   *)
(* by no route of the model; it has no variable.                           *)
(***************************************************************************)
Listening == startupPc # "load"

\* schema.parse and the storage call both return, or one of them throws
Outcomes == {"ok", "error"}

Resp(route, req, status, body, error, storage, op, result) ==
  [route |-> route, req |-> req, status |-> status, body |-> body, error |-> error,
   storage |-> storage, engine |-> recommendationEngine,
   engineOp |-> op, engineResult |-> result, engineReady |-> EngineReady]

\* the entries of Catalogue a cafe is posted from
SysTemplates == {1, 2}
SysQuizzes == {q \in RankQuizzes : q.mood = "date"}

\* the longitude, in whole degrees, of the cafes posted from Catalogue[k]
SysLongitude(k) == k % 2

\* a handler that stores a row, hands it to the engine and replies with it:
\* try { store; await engine.op(row); res.json(row) } catch { res.status(code) }
IngestReply(route, req, code, error, op, arg) ==
  LET r == EngineIngest(recommendationEngine, arg)
  IN IF r = "ok"
     THEN Resp(route, req, 200, arg, "", "ok", op, r)
     ELSE Resp(route, req, code, <<>>, error, "ok", op, r)

\* POST /api/users
PostUser(outcome) ==
  /\ Listening
  /\ LET route == "POST /api/users"
         error == "Invalid user data"
     IN IF outcome = "error"
        THEN /\ response' = Resp(route, <<>>, 400, <<>>, error, "error", "none", "none")
             /\ UNCHANGED users
        ELSE /\ Len(users) < MaxUsers
             /\ users' = Append(users, NoQuiz)
             /\ response' = IngestReply(route, <<>>, 400, error, "addUser", <<Len(users) + 1>>)
  /\ UNCHANGED <<env, recommendationEngine, isInitialized, startupPc, allCafesLocal,
                 backfilled, logged, cafes, scoreVars, rankVars>>

\* storage.updateUserQuiz: the updated row, or undefined when no row has the id
UpdatedUser(id) == IF id \in 1..Len(users) THEN <<id>> ELSE <<>>

\* POST /api/users/:id/quiz
PostQuiz(id, body, outcome) ==
  /\ Listening
  /\ LET route == "POST /api/users/:id/quiz"
         error == "Failed to update quiz responses"
     IN IF outcome = "error"
        THEN /\ response' = Resp(route, <<>>, 500, <<>>, error, "error", "none", "none")
             /\ UNCHANGED users
        ELSE /\ users' = [i \in 1..Len(users) |-> IF i = id THEN body ELSE users[i]]
             /\ response' = IngestReply(route, <<id>>, 500, error, "addUser", UpdatedUser(id))
  /\ UNCHANGED <<env, recommendationEngine, isInitialized, startupPc, allCafesLocal,
                 backfilled, logged, cafes, scoreVars, rankVars>>

\* POST /api/cafes
PostCafe(k, outcome) ==
  /\ Listening
  /\ LET route == "POST /api/cafes"
         error == "Invalid cafe data"
         row == Row(Catalogue[k], Len(cafes) + 1, SysLongitude(k))
     IN IF outcome = "error"
        THEN /\ response' = Resp(route, <<>>, 400, <<>>, error, "error", "none", "none")
             /\ UNCHANGED cafes
        ELSE /\ Len(cafes) < MaxCafes
             /\ cafes' = Append(cafes, row)
             /\ response' = IngestReply(route, <<>>, 400, error, "addCafe", <<row.id>>)
  /\ UNCHANGED <<env, recommendationEngine, isInitialized, startupPc, allCafesLocal,
                 backfilled, logged, users, scoreVars, rankVars>>

\* POST /api/interactions; the stored row is named by its id
PostInteraction(outcome) ==
  /\ Listening
  /\ LET route == "POST /api/interactions"
         error == "Invalid interaction data"
     IN response' =
          IF outcome = "error"
          THEN Resp(route, <<>>, 400, <<>>, error, "error", "none", "none")
          ELSE IngestReply(route, <<>>, 400, error, "addInteraction", <<1>>)
  /\ UNCHANGED <<env, recommendationEngine, isInitialized, startupPc, allCafesLocal,
                 backfilled, logged, users, cafes, scoreVars, rankVars>>

\* A query parameter is <<>> when absent and <<n>> when it is the numeral n;
\* a numeral is a non-empty string, so it is truthy whatever its value.
Present(param) == param # <<>>

\* GET /api/cafes
GetCafes(lat, lng, radius, outcome) ==
  /\ Listening
  /\ LET route == "GET /api/cafes"
         req == <<lat, lng, radius>>
     IN response' =
          IF outcome = "error"
          THEN Resp(route, <<>>, 500, <<>>, "Failed to fetch cafes", "error", "none", "none")
          ELSE IF Present(lat) /\ Present(lng) /\ Present(radius)
          THEN Resp(route, req, 200,
                    Ids(getCafesNearLocation(lat[1], lng[1], radius[1], cafes)),
                    "", "ok", "none", "none")
          ELSE Resp(route, req, 200, Ids(getAllCafes), "", "ok", "none", "none")
  /\ UNCHANGED <<env, recommendationEngine, isInitialized, startupPc, allCafesLocal,
                 backfilled, logged, users, cafes, scoreVars, rankVars>>

DefaultCount == 10

\* parseInt(req.query.count) || 10: an absent count parses to NaN, and NaN
\* and 0 are falsy
ParseCount(count) == IF count = <<>> \/ count = <<0>> THEN DefaultCount ELSE count[1]

\* line 174 with the length test inverted
MutUseFallback(recommendedCafeIds, quizResponses) ==
  Len(recommendedCafeIds) # 0 /\ quizResponses # NoQuiz

\* recommendedCafeIds.length === 0 && user.quizResponses
UseFallback(recommendedCafeIds, quizResponses) ==
  Len(recommendedCafeIds) = 0 /\ quizResponses # NoQuiz

\* for (const cafeId of recommendedCafeIds): the ids storage.getCafe finds
Resolve(ids) == SelectSeq(ids, LAMBDA id : \E i \in 1..Len(cafes) : cafes[i].id = id)

\* GET /api/users/:id/recommendations
GetRecommendations(id, count, outcome) ==
  /\ Listening
  /\ LET route == "GET /api/users/:id/recommendations"
         req == <<id, ParseCount(count)>>
         personalized == EngineGetRecommendations(recommendationEngine, id, ParseCount(count))
     IN response' =
          IF outcome = "error"
          THEN Resp(route, <<>>, 500, <<>>, "Failed to get recommendations",
                    "error", "none", "none")
          ELSE IF id \notin 1..Len(users)
          THEN Resp(route, req, 404, <<>>, "User not found", "ok", "none", "none")
          ELSE IF UseFallback(personalized, users[id])
          THEN Resp(route, req, 200,
                    Resolve(EngineGetFallbackRecommendations(
                              recommendationEngine, users[id], getAllCafes)),
                    "", "ok", "getFallbackRecommendations", "ok")
          ELSE Resp(route, req, 200, Resolve(personalized), "", "ok",
                    "getRecommendations", "ok")
  /\ UNCHANGED <<env, recommendationEngine, isInitialized, startupPc, allCafesLocal,
                 backfilled, logged, users, cafes, scoreVars, rankVars>>

(***************************************************************************)
(* The process                                                             *)
(***************************************************************************)
UserIds == 1..(MaxUsers + 1)
QueryCounts == {<<>>, <<1>>}
QueryLats == {<<>>, <<0>>}
QueryLngs == {<<0>>}
QueryRadii == {<<-1>>, <<0>>, <<112>>}

Next ==
  \/ LoadModule
  \/ StartupGetAllCafes
  \/ StartupAddCafe
  \/ \E outcome \in Outcomes : PostUser(outcome)
  \/ \E id \in UserIds, body \in SysQuizzes, outcome \in Outcomes : PostQuiz(id, body, outcome)
  \/ \E k \in SysTemplates, outcome \in Outcomes : PostCafe(k, outcome)
  \/ \E outcome \in Outcomes : PostInteraction(outcome)
  \/ \E lat \in QueryLats, lng \in QueryLngs, radius \in QueryRadii, outcome \in Outcomes :
       GetCafes(lat, lng, radius, outcome)
  \/ \E id \in UserIds, count \in QueryCounts, outcome \in Outcomes :
       GetRecommendations(id, count, outcome)

Spec == InitSys /\ [][Next]_vars

(***************************************************************************)
(* Properties                                                              *)
(***************************************************************************)

\* ---- the rule table of the fallback scorer, row by row ----
RuleTable(q, c) ==
  << [holds |-> q.budget = c.budgetRange, points |-> 3],
     [holds |-> q.hasAmbience /\ c.ambience \in q.ambience, points |-> 4],
     [holds |-> q.mood = "study" /\ c.noiseLevel = "Quiet", points |-> 3],
     [holds |-> q.mood = "study" /\ c.workFriendly, points |-> 2],
     [holds |-> q.mood = "study" /\ c.plugPoints, points |-> 1],
     [holds |-> q.mood = "work" /\ c.workFriendly, points |-> 4],
     [holds |-> q.mood = "work" /\ c.wifiQuality = "Excellent", points |-> 2],
     [holds |-> q.mood = "work" /\ c.plugPoints, points |-> 2],
     [holds |-> q.mood = "date" /\ c.ambience = "Aesthetic", points |-> 3],
     [holds |-> q.mood = "date" /\ c.lighting = "Moody", points |-> 2],
     [holds |-> q.mood = "date" /\ c.seatingStyle = "Booths", points |-> 1],
     [holds |-> q.mood = "hangout" /\ c.noiseLevel = "Social", points |-> 2],
     [holds |-> q.mood = "hangout" /\ c.ambience = "Cozy", points |-> 2],
     [holds |-> c.instaWorthiness = "High", points |-> 2],
     [holds |-> c.petFriendly /\ q.petFriendly, points |-> 1] >>

RECURSIVE SumOfRows(_, _)
SumOfRows(rows, i) ==
  IF i > Len(rows) THEN 0
  ELSE (IF rows[i].holds THEN rows[i].points ELSE 0) + SumOfRows(rows, i + 1)

\* the rows that do not mention the mood: budget, ambience, insta, pet
MoodIndependentRows(q, c) ==
  LET t == RuleTable(q, c) IN <<t[1], t[2], t[14], t[15]>>

\* C1: getFallbackRecommendations of the rule-based variant returns the same
\* id sequence as getFallbackRecommendations of the personalized variant, for
\* every quiz response and cafe list.
C1_FallbackSameInBothVariants ==
  (recombeeIds.called /\ algoliaIds.called) => recombeeIds.ids = algoliaIds.ids

\* C2: every score calculateFallbackScore returns is the sum of the points of
\* the rule-table rows whose condition holds; for a mood outside {study, work,
\* date, hangout} it is the sum of the mood-independent rows alone; it is a
\* non-negative integer, and every call on the same pair returns the same.
C2_ScoreIsRuleTableSum ==
  \A i \in 1..Len(scores) :
    /\ scores[i] = SumOfRows(RuleTable(quizResponse, cafe), 1)
    /\ quizResponse.mood \notin {"study", "work", "date", "hangout"}
         => scores[i] = SumOfRows(MoodIndependentRows(quizResponse, cafe), 1)
    /\ scores[i] \in Nat
    /\ scores[i] = scores[1]

\* C2 witness: the scorer was called twice on a 'date' quiz and a cafe on
\* which all three date rows and a hangout row's cafe condition hold, and
\* returned 3 + 4 + 3 + 2 + 1 + 2 + 1 = 16.
C2_Witness ==
  /\ Len(scores) = 2
  /\ quizResponse.mood = "date"
  /\ cafe.noiseLevel = "Social"
  /\ scores[2] = 16

\* the position of the cafe with this id in the input of the ranking
RankPos(id) == CHOOSE i \in 1..Len(rankCafes) : rankCafes[i].id = id
RankScore(id) == calculateFallbackScore(rankQuiz, rankCafes[RankPos(id)])

\* C3: the ids the fallback ranking returns are in descending order of score,
\* two cafes of equal score are in the order of the input list, every id is
\* the id of an input cafe and no input position is returned twice.
C3_RankedDescendingStable ==
  recombeeIds.called =>
    LET r == recombeeIds.ids
    IN /\ \A i \in 1..Len(r) : \E k \in 1..Len(rankCafes) : rankCafes[k].id = r[i]
       /\ \A i, j \in 1..Len(r) :
            i < j =>
              /\ RankPos(r[i]) # RankPos(r[j])
              /\ RankScore(r[i]) >= RankScore(r[j])
              /\ RankScore(r[i]) = RankScore(r[j]) => RankPos(r[i]) < RankPos(r[j])

\* C3 witness: a ranking that moved a cafe in front of an earlier one and
\* returned two cafes of equal score.
C3_Witness ==
  /\ recombeeIds.called
  /\ LET r == recombeeIds.ids
     IN /\ \E i, j \in 1..Len(r) : i < j /\ RankPos(r[i]) > RankPos(r[j])
        /\ \E i, j \in 1..Len(r) : i < j /\ RankScore(r[i]) = RankScore(r[j])

RecommendationsRoute == "GET /api/users/:id/recommendations"

\* C4: the ranking's result in the reply to a recommendations request has
\* exactly min(limit, number of cafes) ids, limit being the count of the
\* request (default 10), and no id when limit <= 0.
C4_FallbackLengthIsMinOfCountAndCafes ==
  (/\ response.route = RecommendationsRoute
   /\ response.status = 200
   /\ response.engine = "Recombee"
   /\ response.engineOp = "getFallbackRecommendations")
  => LET limit == response.req[2]
     IN Len(response.body) = IF limit <= 0 THEN 0 ELSE Min(limit, Len(cafes))

\* C5: the reply to a recommendations request for an existing user is the
\* engine's personalized ids when there are any, and then no fallback is
\* computed; otherwise the fallback ids for the stored quiz response and all
\* the cafes in storage when the user has a quiz response; otherwise empty.
C5_RecommendationsReply ==
  (response.route = RecommendationsRoute /\ response.status = 200) =>
    LET id == response.req[1]
        personalized == EngineGetRecommendations(response.engine, id, response.req[2])
    IN /\ id \in 1..Len(users)
       /\ IF personalized # <<>>
          THEN /\ response.body = personalized
               /\ response.engineOp = "getRecommendations"
          ELSE IF users[id] # NoQuiz
          THEN /\ response.body =
                    EngineGetFallbackRecommendations(response.engine, users[id], cafes)
               /\ response.engineOp = "getFallbackRecommendations"
          ELSE /\ response.body = <<>>
               /\ response.engineOp = "getRecommendations"

\* C5 witness: a user with a stored quiz response got the fallback ids of the
\* two cafes in storage, the second cafe ranked first.
C5_Witness ==
  /\ response.route = RecommendationsRoute
  /\ response.status = 200
  /\ users[response.req[1]] # NoQuiz
  /\ response.body = <<2, 1>>

IngestionRoutes ==
  {"POST /api/users", "POST /api/users/:id/quiz", "POST /api/cafes", "POST /api/interactions"}

\* C7: an ingestion request whose storage call succeeded completes
\* successfully, whatever the engine operation did.
C7_EngineFailureNeverFailsRequest ==
  (response.route \in IngestionRoutes /\ response.storage = "ok")
  => (response.status = 200 /\ response.error = "")

\* C8: the engine is advertised as ready only after initialize has completed
\* and every cafe getAllCafes returned has been passed to addCafe, once each
\* and in order; a failure of the startup is logged, the engine is then never
\* advertised as ready, and the process serves requests all the same.
C8_ReadyOnlyAfterBackfill ==
  /\ EngineReady =>
       /\ "initialized" \in logged
       /\ recommendationEngine = "Recombee" => isInitialized
       /\ backfilled = Ids(allCafesLocal)
  /\ Len(backfilled) <= Len(allCafesLocal)
  /\ backfilled = SubSeq(Ids(allCafesLocal), 1, Len(backfilled))
  /\ startupPc = "done" <=> (EngineReady \/ "failed" \in logged)
  /\ "failed" \in logged =>
       /\ ~EngineReady
       /\ Listening
       /\ ENABLED PostInteraction("ok")

\* C8 witness: the engine is advertised as ready after a backfill of two cafes.
C8_Witness ==
  /\ EngineReady
  /\ Len(backfilled) >= 2

\* C9: once the module is loaded the engine is the personalized variant if
\* both credentials are present and non-empty and the rule-based variant
\* otherwise, it stays that, and every request is served by it.
C9_EngineSelectedOnceByCredentials ==
  LET present(v) == v \notin {Undefined, ""}
      both == present(env.RECOMBEE_DATABASE_ID) /\ present(env.RECOMBEE_PRIVATE_TOKEN)
  IN /\ ~Listening => recommendationEngine = "none"
     /\ Listening => recommendationEngine = (IF both THEN "Recombee" ELSE "Algolia")
     /\ response # NoResponse => response.engine = recommendationEngine

\* C9 witness: one credential is set and the other is the empty string, the
\* rule-based variant was selected and has served a request after the startup
\* was over.
C9_Witness ==
  /\ env.RECOMBEE_DATABASE_ID = "secret"
  /\ env.RECOMBEE_PRIVATE_TOKEN = ""
  /\ recommendationEngine = "Algolia"
  /\ startupPc = "done"
  /\ response # NoResponse
  /\ response.engineOp = "addUser"

\* C10: a geo request with a negative radius fails with InvalidArgument.
C10_NegativeRadiusIsInvalidArgument ==
  (/\ response.route = "GET /api/cafes"
   /\ response.storage = "ok"
   /\ Present(response.req[1]) /\ Present(response.req[2]) /\ Present(response.req[3])
   /\ response.req[3][1] < 0)
  => (response.status # 200 /\ response.error = "InvalidArgument")

====
